---- MODULE Spec2Model ----
(***************************************************************************)
(* The forward-only list migration of cdk-typescript-lib:                  *)
(*   - the migration list (src/src/migration/migration-list.ts),           *)
(*   - the migration log table created by initialize,                      *)
(*   - PostgresListMigrationProcessor.initialize / migrate                  *)
(*     (src/unnamed/part_002, lines 16-111).                               *)
(*                                                                         *)
(* One action is one awaited database operation of the code together with  *)
(* the synchronous code that follows it up to the next await.  The         *)
(* connection is a single pg client: it runs the operations it is given in *)
(* the order they were issued.  The DELETE of migrate (line 56) is issued  *)
(* without await: it is in flight (inflightDelete) until the server runs   *)
(* it, and every later operation of the connection waits for it.           *)
(*                                                                         *)
(* The run_ts column (server side NOW()) is not carried by the rows: no    *)
(* statement of the code reads it except to print it in an error text.     *)
(*                                                                         *)
(* Spec, SpecOverlap, SpecTestMode, SpecLongLists and SpecCrash call the    *)
(* processor directly (SpecCrash lets the process stop during a call);      *)
(* SpecHandler calls it through migrationHandler                            *)
(* (src/src/migration/migration-handler.ts, lines 65-93), one invocation    *)
(* per event; SpecList builds migration lists with migrate, SpecArrays      *)
(* does so with the lists as arrays of a heap; SpecConstruct computes the   *)
(* Checksum property of the migration custom resource                       *)
(* (src/src/ts-api-construct.ts, lines 324-346).                            *)
(***************************************************************************)
EXTENDS Integers, Sequences, FiniteSets, TLC

\* Bounds of the model.
MaxOrder == 2

\* The values the inputs are drawn from.
Orders == 1..MaxOrder
Queries == {"Q1", "Q2"}
Descriptions == {"M"}
DbErrors == {"syntax error"}
DuplicateKey == "duplicate key value violates unique constraint"
UndefinedTable == "relation does not exist"

\* type Migration = { order, description, query }
Migration == [order : Orders, description : Descriptions, query : Queries]

\* A row of the migration log table (databaseMigrationSchema without runTs).
Row(order, description, query, successful, message) ==
    [creationOrder |-> order, description |-> description,
     queryExecuted |-> query, successful |-> successful, message |-> message]

VARIABLES
    migrationList,      \* the processor's list (constructor argument)
    allowMigrationContentsChanges,  \* the processor's test-mode flag (constructor argument)
    tableExists,        \* the migration log table has been created
    log,                \* the rows of the migration log table
    inflightDelete,     \* the DELETE of line 56 is issued and not yet run
    pc,                 \* where the running migrate is: idle, query, insertOk, insertFailed
    lastSuccessful,     \* local of migrate
    newMigrationsList,  \* the steps the for loop has still to visit
    hasError,           \* local of migrate
    errorMessage,       \* local of migrate
    result,             \* what the last migrate call returned or threw
    actualMigrations,   \* what the select of the running or last pass returned
    passExec,           \* the statements the running or last pass executed
    passInserts,        \* the rows the running or last pass inserted
    passOk,             \* no database operation of the running or last pass failed
    prev,               \* the result of the pass before, and how the list changed since
    listChange,         \* how the list changed since the last pass
    other,              \* a second migrate call, suspended at an await (SpecOverlap)
    catalog,            \* a list under construction: the value of a MigrationList variable
    catalogBefore,      \* the list the last call of its migrate was made on
    appendArg,          \* the migration that call was given
    appendOut,          \* what that call did: the error thrown, the list returned
    event,              \* the event the handler was last invoked with
    hpc,                \* where the handler is: idle, connect, initialize, migrate, migrating, done
    response,           \* what the last handler invocation returned
    client,             \* the client of connectPostgresDb: none, open, ended
    calls,              \* what the running or last invocation called, in order
    raised,             \* the exception the catch block of the invocation got
    unhandled,          \* the rejections of promises nobody awaits
    handlerSource,      \* the bytes of the migration lambda's source file at the last synthesis
    previousSource,     \* the bytes of that file at the synthesis before
    Checksum,           \* the Checksum property of the migration custom resource
    previousChecksum,   \* the Checksum property the synthesis before gave it
    arrays,             \* the arrays the lists are (the heap): arrays[r] is what array r holds
    receiver,           \* the array the last call of a list's migrate was made on
    returned            \* the array that call returned (0: it threw)

listVars == <<catalog, catalogBefore, appendArg, appendOut>>

handlerVars == <<event, hpc, response, client, calls, raised, unhandled>>

constructVars == <<handlerSource, previousSource, Checksum, previousChecksum>>

arrayVars == <<arrays, receiver, returned>>

\* What is fixed before the handler is deployed: the lists built, the stack synthesized.
buildVars == <<listVars, constructVars, arrayVars>>

vars == <<migrationList, allowMigrationContentsChanges, tableExists, log, inflightDelete, pc, lastSuccessful,
          newMigrationsList, hasError, errorMessage, result, actualMigrations,
          passExec, passInserts, passOk, prev, listChange, other, listVars,
          handlerVars, constructVars, arrayVars>>

passLocals == <<lastSuccessful, newMigrationsList, hasError, errorMessage>>
passHistory == <<actualMigrations, passExec, passInserts, passOk, prev>>

NoError == [kind |-> "", order |-> 0, query |-> ""]
NoResult == [kind |-> "none", lastSuccessful |-> -1, errorMessage |-> "", error |-> NoError]

\* MigrationResultSuccess
MigrationResultSuccess(last) ==
    [kind |-> "Success", lastSuccessful |-> last, errorMessage |-> "", error |-> NoError]

\* MigrationResultFailure
MigrationResultFailure(last, message) ==
    [kind |-> "Failure", lastSuccessful |-> last, errorMessage |-> message, error |-> NoError]

\* migrate ends with an exception
Thrown(error) ==
    [kind |-> "Thrown", lastSuccessful |-> -1, errorMessage |-> "", error |-> error]

\* The call of migrate never ended: its process was stopped while it waited at the
\* await `at`, with `last` the lastSuccessful it had got to.
Interrupted(at, last) ==
    [kind |-> "Interrupted", lastSuccessful |-> last, errorMessage |-> "",
     error |-> [kind |-> at, order |-> 0, query |-> ""]]

\* An exception of the database driver, with its message.
DbException(message) == [kind |-> message, order |-> 0, query |-> ""]

(***************************************************************************)
(* The migration list: internalMigrationList(migrations).migrate            *)
(***************************************************************************)
\* The migrations a caller may hand to migrate: the orders are any integers.
AnyMigration == [order : (0 - 1)..(MaxOrder + 1), description : Descriptions, query : Queries]

\* Mutant of internalMigrationList: < for <= in line 13.
internalMigrationListZeroAllowed(migrations, migration) ==
    IF migration.order < 0
    THEN [error |-> "Migration order number must be greater than zero", list |-> migrations]
    ELSE IF Len(migrations) > 0 /\ migration.order <= migrations[Len(migrations)].order
    THEN [error |-> "Migration orders must grow", list |-> migrations]
    ELSE [error |-> "", list |-> Append(migrations, migration)]

\* Mutant of internalMigrationList: < for <= in line 14.
internalMigrationListEqualAllowed(migrations, migration) ==
    IF migration.order <= 0
    THEN [error |-> "Migration order number must be greater than zero", list |-> migrations]
    ELSE IF Len(migrations) > 0 /\ migration.order < migrations[Len(migrations)].order
    THEN [error |-> "Migration orders must grow", list |-> migrations]
    ELSE [error |-> "", list |-> Append(migrations, migration)]

\* The outcome of list.migrate(migration): the new list, or the error thrown.
\* The receiver is not touched: the new list is a copy ([...migrations, migration]).
internalMigrationList(migrations, migration) ==
    IF migration.order <= 0
    THEN [error |-> "Migration order number must be greater than zero", list |-> migrations]
    ELSE IF Len(migrations) > 0 /\ migration.order <= migrations[Len(migrations)].order
    THEN [error |-> "Migration orders must grow", list |-> migrations]
    ELSE [error |-> "", list |-> Append(migrations, migration)]

\* The same call with the arrays as objects: `heap` is what each array holds, `r` the
\* array whose migrate is called.  Line 18 makes a new array of the elements of r and
\* the migration, gives it its own migrate and returns it; an error is thrown before
\* anything is made.
\* Mutant of migrate: the migration is pushed on the receiver, which is returned.
migrateInPlace(heap, r, migration) ==
    LET out == internalMigrationList(heap[r], migration)
    IN IF out.error # ""
       THEN [error |-> out.error, heap |-> heap, returned |-> 0]
       ELSE [error |-> "", heap |-> [heap EXCEPT ![r] = out.list], returned |-> r]

migrate(heap, r, migration) ==
    LET out == internalMigrationList(heap[r], migration)
    IN IF out.error # ""
       THEN [error |-> out.error, heap |-> heap, returned |-> 0]
       ELSE [error |-> "", heap |-> Append(heap, out.list), returned |-> Len(heap) + 1]

\* The lists that at most n calls of migrate build from migrationList() = [].
RECURSIVE ListsBuiltBy(_)
ListsBuiltBy(n) ==
    IF n = 0 THEN {<<>>}
    ELSE LET shorter == ListsBuiltBy(n - 1)
         IN shorter \cup { internalMigrationList(l, m).list : l \in shorter, m \in Migration }

\* The lists a processor can be constructed with.
MigrationLists == ListsBuiltBy(MaxOrder)

(***************************************************************************)
(* The database: the log table and the operations the code runs on it      *)
(***************************************************************************)
\* Mutant of primaryKeys: initialize leaves the primaryKeys argument out (default []).
noPrimaryKeys == {}

\* initialize: generateCreateStatement(schema, table, ["creationOrder"]):
\* CREATE TABLE IF NOT EXISTS with creation_order as the primary key.
primaryKeys == {"creationOrder"}

\* Row `row` may not be inserted: a row of the table has the same primary key.
PrimaryKeyViolation(rows, row) ==
    /\ primaryKeys # {}
    /\ \E i \in DOMAIN rows : \A k \in primaryKeys : rows[i][k] = row[k]

\* Mutant of createTable: IF NOT EXISTS is missing and the table is replaced.
createTableReplacing(exists, rows) == <<>>

\* CREATE TABLE IF NOT EXISTS: the rows of the table after the statement; a table that
\* exists is left as it is, a new table is empty.
createTable(exists, rows) == IF exists THEN rows ELSE <<>>

RemoveAt(s, i) == SubSeq(s, 1, i - 1) \o SubSeq(s, i + 1, Len(s))

\* ORDER BY creation_order
RECURSIVE OrderByCreationOrder(_)
OrderByCreationOrder(rows) ==
    IF rows = <<>> THEN <<>>
    ELSE LET i == CHOOSE i \in DOMAIN rows : \A j \in DOMAIN rows :
                     \/ rows[i].creationOrder < rows[j].creationOrder
                     \/ rows[i].creationOrder = rows[j].creationOrder /\ i <= j
         IN <<rows[i]>> \o OrderByCreationOrder(RemoveAt(rows, i))

\* Mutant of select: the rows are read after the DELETE of the failed rows has run.
selectAfterPurge(rows) == OrderByCreationOrder(SelectSeq(rows, LAMBDA r : r.successful))

\* Mutant of select: ORDER BY creation_order DESC.
selectDescending(rows) ==
    LET asc == OrderByCreationOrder(rows)
    IN [i \in DOMAIN asc |-> asc[Len(asc) + 1 - i]]

\* db.select(databaseMigrationSchema, `${table} ORDER BY creation_order`)
select(rows) == OrderByCreationOrder(rows)

\* Mutant of DeleteFailed: the WHERE clause is missing.
DeleteAll(rows) == <<>>

\* DELETE FROM ${table} WHERE successful = false
DeleteFailed(rows) == SelectSeq(rows, LAMBDA r : r.successful)

\* db.query(migration.query): the statement runs ("") or the database raises an error.
query(statement) == {""} \cup DbErrors

\* db.multiInsert(schema, table, [row], {runTs: NOW}): the possible outcomes.
multiInsert(rows, row) ==
    IF PrimaryKeyViolation(rows, row)
    THEN { [error |-> DuplicateKey, rows |-> rows] }
    ELSE { [error |-> "", rows |-> Append(rows, row)] }
         \cup { [error |-> e, rows |-> rows] : e \in DbErrors }

(***************************************************************************)
(* PostgresListMigrationProcessor.migrate: the synchronous parts           *)
(***************************************************************************)
NoMigration == [order |-> 0, description |-> "", query |-> ""]

\* this.migrationList.find(m => m.order === creationOrder)
find(list, creationOrder) ==
    IF \E i \in DOMAIN list : list[i].order = creationOrder
    THEN list[CHOOSE i \in DOMAIN list :
                /\ list[i].order = creationOrder
                /\ \A j \in 1..(i - 1) : list[j].order # creationOrder]
    ELSE NoMigration

NotFound == "not found in your list"
Modified == "the query text modified"

\* Mutant of forEachActual: the rows of failed attempts are checked as well
\* (line 41 is missing).
RECURSIVE forEachActualNoSkip(_, _, _, _)
forEachActualNoSkip(actual, i, list, last) ==
    IF i > Len(actual) THEN [error |-> NoError, lastSuccessful |-> last]
    ELSE LET existingMigration == find(list, actual[i].creationOrder) IN
         IF existingMigration = NoMigration
         THEN [error |-> [kind |-> NotFound, order |-> actual[i].creationOrder,
                          query |-> actual[i].queryExecuted],
               lastSuccessful |-> last]
         ELSE IF existingMigration.query # actual[i].queryExecuted
         THEN [error |-> [kind |-> Modified, order |-> actual[i].creationOrder,
                          query |-> actual[i].queryExecuted],
               lastSuccessful |-> last]
         ELSE forEachActualNoSkip(actual, i + 1, list, actual[i].creationOrder)

\* Mutant of forEachActual: the query text is not compared (lines 48-52 are missing).
RECURSIVE forEachActualNoTextCheck(_, _, _, _)
forEachActualNoTextCheck(actual, i, list, last) ==
    IF i > Len(actual) THEN [error |-> NoError, lastSuccessful |-> last]
    ELSE IF ~actual[i].successful THEN forEachActualNoTextCheck(actual, i + 1, list, last)
    ELSE LET existingMigration == find(list, actual[i].creationOrder) IN
         IF existingMigration = NoMigration
         THEN [error |-> [kind |-> NotFound, order |-> actual[i].creationOrder,
                          query |-> actual[i].queryExecuted],
               lastSuccessful |-> last]
         ELSE forEachActualNoTextCheck(actual, i + 1, list, actual[i].creationOrder)

\* Mutant of forEachActual: lastSuccessful is not set to the row's order (line 54 is
\* missing).
RECURSIVE forEachActualNoAdvance(_, _, _, _)
forEachActualNoAdvance(actual, i, list, last) ==
    IF i > Len(actual) THEN [error |-> NoError, lastSuccessful |-> last]
    ELSE IF ~actual[i].successful THEN forEachActualNoAdvance(actual, i + 1, list, last)
    ELSE LET existingMigration == find(list, actual[i].creationOrder) IN
         IF existingMigration = NoMigration
         THEN [error |-> [kind |-> NotFound, order |-> actual[i].creationOrder,
                          query |-> actual[i].queryExecuted],
               lastSuccessful |-> last]
         ELSE IF existingMigration.query # actual[i].queryExecuted
         THEN [error |-> [kind |-> Modified, order |-> actual[i].creationOrder,
                          query |-> actual[i].queryExecuted],
               lastSuccessful |-> last]
         ELSE forEachActualNoAdvance(actual, i + 1, list, last)

\* actualMigrations.forEach(...) from row i on, with lastSuccessful = last:
\* the error thrown, or the value lastSuccessful ends with.
RECURSIVE forEachActual(_, _, _, _)
forEachActual(actual, i, list, last) ==
    IF i > Len(actual) THEN [error |-> NoError, lastSuccessful |-> last]
    ELSE IF ~actual[i].successful THEN forEachActual(actual, i + 1, list, last)
    ELSE LET existingMigration == find(list, actual[i].creationOrder) IN
         IF existingMigration = NoMigration
         THEN [error |-> [kind |-> NotFound, order |-> actual[i].creationOrder,
                          query |-> actual[i].queryExecuted],
               lastSuccessful |-> last]
         ELSE IF existingMigration.query # actual[i].queryExecuted
         THEN [error |-> [kind |-> Modified, order |-> actual[i].creationOrder,
                          query |-> actual[i].queryExecuted],
               lastSuccessful |-> last]
         ELSE forEachActual(actual, i + 1, list, actual[i].creationOrder)

\* Mutant of forEachActualTestMode: the flag is not looked at.
forEachActualFlagIgnored(actual, i, list, last) == forEachActual(actual, i, list, last)

\* The forEach of a processor made with allowMigrationContentsChanges = true: the
\* test of the query text (lines 48-52) is not made.  The processor that takes the
\* flag is not among the sources: this follows the specification ("permit Catalog
\* content changes without triggering the integrity check").
RECURSIVE forEachActualTestMode(_, _, _, _)
forEachActualTestMode(actual, i, list, last) ==
    IF i > Len(actual) THEN [error |-> NoError, lastSuccessful |-> last]
    ELSE IF ~actual[i].successful THEN forEachActualTestMode(actual, i + 1, list, last)
    ELSE LET existingMigration == find(list, actual[i].creationOrder) IN
         IF existingMigration = NoMigration
         THEN [error |-> [kind |-> NotFound, order |-> actual[i].creationOrder,
                          query |-> actual[i].queryExecuted],
               lastSuccessful |-> last]
         ELSE forEachActualTestMode(actual, i + 1, list, actual[i].creationOrder)

\* Mutant of filterNew: >= for >.
filterNewInclusive(list, last) == SelectSeq(list, LAMBDA m : m.order >= last)

\* Mutant of filterNew: the filter of line 57 is left out.
filterNewAll(list, last) == list

\* this.migrationList.filter(migration => migration.order > lastSuccessful)
filterNew(list, last) == SelectSeq(list, LAMBDA m : m.order > last)

\* Mutant of deleteIssued: the DELETE is issued before the forEach.
deleteIssuedFirst(error) == TRUE

\* Mutant of deleteIssued: the DELETE of line 56 is left out.
deleteIssuedNever(error) == FALSE

\* The DELETE of line 56 comes after the forEach: it is issued when no error was thrown.
deleteIssued(error) == error = NoError

\* Mutant of successRow: the row of an applied step is written with successful: false.
successRowUnsuccessful(migration) ==
    Row(migration.order, migration.description, migration.query, FALSE, "")

\* Mutant of successRow: the description is logged as the query executed.
successRowDescription(migration) ==
    Row(migration.order, migration.description, migration.description, TRUE, "")

\* lines 67-73: the row logged for a step that ran
successRow(migration) ==
    Row(migration.order, migration.description, migration.query, TRUE, "")

\* lines 85-91: the row logged for a step that failed
failedRow(migration, message) ==
    Row(migration.order, migration.description, migration.query, FALSE, message)

\* Mutant of afterCatch: the break is missing.
afterCatchContinue(pending) == Tail(pending)

\* The steps the for loop still visits after the catch block: none (break).
afterCatch(pending) == <<>>

\* if (hasError) return Failure; return Success
conclude(error, last, message) ==
    IF error THEN MigrationResultFailure(last, message) ELSE MigrationResultSuccess(last)

(***************************************************************************)
(* migrationHandler (src/src/migration/migration-handler.ts): the values    *)
(***************************************************************************)
RequestIds == {"r1"}
PhysicalResourceIds == {"p1"}
ConnectErrors == {"connection refused"}
EndErrors == {"end failed"}

\* A resource id: the one of an event, or `custom-${RequestId}`.
EventId(id) == [prefix |-> "", id |-> id]
CustomId(requestId) == [prefix |-> "custom-", id |-> requestId]

\* CloudFormationCustomResourceEvent; a Create event carries no PhysicalResourceId.
Events ==
    [RequestType : {"Create"}, RequestId : RequestIds, PhysicalResourceId : {EventId("")},
     StackId : {"s1"}, LogicalResourceId : {"l1"}]
    \cup [RequestType : {"Update", "Delete"}, RequestId : RequestIds,
          PhysicalResourceId : {EventId(id) : id \in PhysicalResourceIds},
          StackId : {"s1"}, LogicalResourceId : {"l1"}]

NoEvent ==
    [RequestType |-> "", RequestId |-> "", PhysicalResourceId |-> EventId(""),
     StackId |-> "", LogicalResourceId |-> ""]

\* The text of Data.Result: its constant part, the message and the order it quotes.
ResultText(text, message, orders) == [text |-> text, message |-> message, orders |-> orders]

NoResponse ==
    [Status |-> "", PhysicalResourceId |-> EventId(""), Data |-> ResultText("", NoError, <<>>),
     StackId |-> "", RequestId |-> "", LogicalResourceId |-> ""]

\* lines 21-33
cdkResponse(status, resultText, physicalResourceId, ev) ==
    [Status |-> status, PhysicalResourceId |-> physicalResourceId, Data |-> resultText,
     StackId |-> ev.StackId, RequestId |-> ev.RequestId,
     LogicalResourceId |-> ev.LogicalResourceId]

\* lines 35-43
failureResponse(resultText, physicalResourceId, ev) ==
    cdkResponse("FAILED", resultText, physicalResourceId, ev)

\* lines 45-49
successResponse(resultText, physicalResourceId, ev) ==
    cdkResponse("SUCCESS", resultText, physicalResourceId, ev)

\* Mutant of deleteResponse: the Delete event gets the resource id of a Create event.
deleteResponseCustomId(ev) ==
    successResponse(ResultText("This is forward-only migration, delete event ignored",
                               NoError, <<>>),
                    CustomId(ev.RequestId), ev)

\* line 70
deleteResponse(ev) ==
    successResponse(ResultText("This is forward-only migration, delete event ignored",
                               NoError, <<>>),
                    ev.PhysicalResourceId, ev)

\* Mutant of callsInitialize: initialize is called for every event.
callsInitializeAlways(ev) == TRUE

\* line 76
callsInitialize(ev) == ev.RequestType = "Create"

\* lines 75-79: resourceId
resourceId(ev) ==
    IF ev.RequestType = "Create" THEN CustomId(ev.RequestId) ELSE ev.PhysicalResourceId

\* Mutant of catchResourceId: the catch block uses the event's PhysicalResourceId.
catchResourceIdOfEvent(ev) == ev.PhysicalResourceId

\* line 87
catchResourceId(ev) ==
    IF ev.RequestType = "Create" THEN CustomId(ev.RequestId) ELSE ev.PhysicalResourceId

\* Mutant of migrationUpdate: the test of result.successful is missing.
migrationUpdateAlwaysSuccess(res, eventResourceId, ev) ==
    successResponse(ResultText("Last migration: ", NoError, <<res.lastSuccessful>>),
                    eventResourceId, ev)

\* lines 56-62: migrationUpdate, from the result of migrate on
migrationUpdate(res, eventResourceId, ev) ==
    IF res.kind = "Failure"
    THEN failureResponse(ResultText("Migration error: , last successful: ",
                                    DbException(res.errorMessage), <<res.lastSuccessful>>),
                         eventResourceId, ev)
    ELSE successResponse(ResultText("Last migration: ", NoError, <<res.lastSuccessful>>),
                         eventResourceId, ev)

\* lines 84-89: the catch block
exceptionResponse(error, ev) ==
    failureResponse(ResultText("Migration exception: ", error, <<>>), catchResourceId(ev), ev)

(***************************************************************************)
(* TSApiConstruct: the Checksum property of the migration custom resource   *)
(***************************************************************************)
\* The bytes a source file is made of, and the files of the model.
Bytes == {0, 1, 2, 255}
MaxFileLen == 3
SourceFiles == UNION { [1..n -> Bytes] : n \in 0..MaxFileLen }

\* The accumulator of the reduce is a BigInt below 65536n ** 2n: it is kept as its
\* two 16-bit halves, value = hi * 65536 + lo.
Half == 65536
Zero == [hi |-> 0, lo |-> 0]

\* (accumulator + BigInt(sym)) % (65536n ** 2n)
addModulo(accumulator, sym) ==
    LET sum == accumulator.lo + sym
    IN [hi |-> (accumulator.hi + (sum \div Half)) % Half, lo |-> sum % Half]

\* readFileSync(path).reduce((accumulator, sym) => accumulator = ..., 0n)
RECURSIVE reduce(_, _, _)
reduce(file, i, accumulator) ==
    IF i > Len(file) THEN accumulator
    ELSE reduce(file, i + 1, addModulo(accumulator, file[i]))

checksum(file) == reduce(file, 1, Zero)

(***************************************************************************)
(* What the claims need to know of the list's change between two passes    *)
(***************************************************************************)
\* The order of the step whose failure ended the last pass (0: none did).
FailedStep ==
    IF result.kind = "Failure" /\ passInserts # <<>>
    THEN passInserts[Len(passInserts)].creationOrder ELSE 0

\* The orders of the steps whose statement the running or last pass ran with success.
Applied == { passExec[i].order : i \in { k \in DOMAIN passExec : passExec[k].ok } }

\* How list `new` differs from list `old`, the list of the last pass.
ListChange(old, new) ==
    IF new = old THEN "unchanged"
    ELSE IF /\ FailedStep > 0
            /\ Len(new) = Len(old)
            /\ \A i \in DOMAIN old :
                  /\ new[i].order = old[i].order
                  /\ new[i].description = old[i].description
                  /\ (new[i].query = old[i].query) <=> (old[i].order # FailedStep)
    THEN "failedStepCorrected"
    ELSE IF Len(new) > Len(old) /\ SubSeq(new, 1, Len(old)) = old THEN "appended"
    ELSE "other"

(***************************************************************************)
(* The state machine                                                       *)
(***************************************************************************)
\* What belongs to one call of migrate: its position, its locals, its outcome.
Call ==
    [pc |-> pc, lastSuccessful |-> lastSuccessful, newMigrationsList |-> newMigrationsList,
     hasError |-> hasError, errorMessage |-> errorMessage, result |-> result,
     actualMigrations |-> actualMigrations, passExec |-> passExec,
     passInserts |-> passInserts, passOk |-> passOk, prev |-> prev]

\* No call.
Idle ==
    [pc |-> "idle", lastSuccessful |-> -1, newMigrationsList |-> <<>>,
     hasError |-> FALSE, errorMessage |-> "", result |-> NoResult,
     actualMigrations |-> <<>>, passExec |-> <<>>, passInserts |-> <<>>, passOk |-> TRUE,
     prev |-> [result |-> NoResult, change |-> "unchanged", failed |-> 0]]

Init ==
    /\ migrationList \in MigrationLists
    /\ allowMigrationContentsChanges = FALSE
    /\ tableExists = FALSE
    /\ log = <<>>
    /\ inflightDelete = FALSE
    /\ pc = "idle"
    /\ lastSuccessful = -1
    /\ newMigrationsList = <<>>
    /\ hasError = FALSE
    /\ errorMessage = ""
    /\ result = NoResult
    /\ actualMigrations = <<>>
    /\ passExec = <<>>
    /\ passInserts = <<>>
    /\ passOk = TRUE
    /\ prev = [result |-> NoResult, change |-> "unchanged", failed |-> 0]
    /\ listChange = "unchanged"
    /\ other = Idle
    /\ catalog = <<>>
    /\ catalogBefore = <<>>
    /\ appendArg = NoMigration
    /\ appendOut = [error |-> "", list |-> <<>>]
    /\ event = NoEvent
    /\ hpc = "idle"
    /\ response = NoResponse
    /\ client = "none"
    /\ calls = <<>>
    /\ raised = NoError
    /\ unhandled = {}
    /\ handlerSource = <<>>
    /\ previousSource = <<>>
    /\ Checksum = checksum(<<>>)
    /\ previousChecksum = checksum(<<>>)
    /\ arrays = << <<>> >>
    /\ receiver = 0
    /\ returned = 0

\* new PostgresListMigrationProcessor(list, {allowMigrationContentsChanges: allow}):
\* the next pass runs with another list.
NewProcessor(list, allow) ==
    /\ UNCHANGED <<other, buildVars>>
    /\ pc = "idle"
    /\ listChange = "unchanged"
    /\ list # migrationList
    /\ migrationList' = list
    /\ allowMigrationContentsChanges' = allow
    /\ listChange' = ListChange(migrationList, list)
    /\ UNCHANGED <<tableExists, log, inflightDelete, pc, passLocals, result,
                   passHistory>>

\* initialize(db): await db.query(CREATE TABLE IF NOT EXISTS ...)
Initialize ==
    /\ UNCHANGED <<other, buildVars, allowMigrationContentsChanges>>
    /\ pc = "idle"
    /\ ~inflightDelete
    /\ tableExists' = TRUE
    /\ log' = createTable(tableExists, log)
    /\ UNCHANGED <<migrationList, inflightDelete, pc, passLocals, result,
                   passHistory, listChange>>

\* The server runs the DELETE that migrate issued without awaiting it.
DeleteCompletes ==
    /\ UNCHANGED <<other, buildVars, allowMigrationContentsChanges>>
    /\ inflightDelete
    /\ log' = DeleteFailed(log)
    /\ inflightDelete' = FALSE
    /\ UNCHANGED <<migrationList, tableExists, pc, passLocals, result, passHistory,
                   listChange>>

\* passOk: the database raised no error of its own accord in the pass (a statement
\* that fails, an insert that fails though it violates no constraint).
\* migrate(db), lines 35-60: the select, the forEach over its rows, the DELETE
\* issued without await, the filter, up to the first await of the for loop.
MigrateStart ==
    /\ UNCHANGED <<other, buildVars, allowMigrationContentsChanges>>
    /\ pc = "idle"
    /\ ~inflightDelete
    /\ prev' = [result |-> result, change |-> listChange, failed |-> FailedStep]
    /\ listChange' = "unchanged"
    /\ passExec' = <<>>
    /\ passInserts' = <<>>
    /\ passOk' = TRUE
    /\ hasError' = FALSE
    /\ errorMessage' = ""
    /\ UNCHANGED <<migrationList, tableExists, log>>
    /\ IF ~tableExists
       THEN /\ result' = Thrown(DbException(UndefinedTable))
            /\ actualMigrations' = <<>>
            /\ lastSuccessful' = -1
            /\ newMigrationsList' = <<>>
            /\ UNCHANGED <<inflightDelete, pc>>
       ELSE LET actual == select(log)
                checked == IF allowMigrationContentsChanges
                           THEN forEachActualTestMode(actual, 1, migrationList, -1)
                           ELSE forEachActual(actual, 1, migrationList, -1)
                pending == filterNew(migrationList, checked.lastSuccessful)
            IN /\ actualMigrations' = actual
               /\ lastSuccessful' = checked.lastSuccessful
               /\ IF checked.error # NoError
                  THEN /\ result' = Thrown(checked.error)
                       /\ newMigrationsList' = <<>>
                       /\ inflightDelete' = deleteIssued(checked.error)
                       /\ UNCHANGED pc
                  ELSE /\ inflightDelete' = deleteIssued(checked.error)
                       /\ newMigrationsList' = pending
                       /\ IF pending = <<>>
                          THEN /\ result' = conclude(FALSE, checked.lastSuccessful, "")
                               /\ pc' = "idle"
                          ELSE /\ result' = NoResult
                               /\ pc' = "query"

\* line 63: await db.query(migration.query)
ExecQuery ==
    /\ UNCHANGED <<other, buildVars, allowMigrationContentsChanges>>
    /\ pc = "query"
    /\ ~inflightDelete
    /\ \E e \in query(Head(newMigrationsList).query) :
        /\ passExec' = Append(passExec, [order |-> Head(newMigrationsList).order,
                                         ok |-> e = ""])
        /\ IF e = ""
           THEN /\ pc' = "insertOk"
                /\ UNCHANGED <<hasError, errorMessage, passOk>>
           ELSE /\ pc' = "insertFailed"
                /\ hasError' = TRUE
                /\ errorMessage' = e
                /\ passOk' = FALSE
    /\ UNCHANGED <<migrationList, tableExists, log, inflightDelete, lastSuccessful,
                   newMigrationsList, result, actualMigrations, passInserts, prev,
                   listChange>>

\* lines 64-78: await db.multiInsert(... successful: true ...); lastSuccessful = order
InsertSuccessful ==
    /\ UNCHANGED <<other, buildVars, allowMigrationContentsChanges>>
    /\ pc = "insertOk"
    /\ ~inflightDelete
    /\ LET migration == Head(newMigrationsList)
           row == successRow(migration)
       IN \E out \in multiInsert(log, row) :
            /\ log' = out.rows
            /\ IF out.error = ""
               THEN /\ passInserts' = Append(passInserts, row)
                    /\ lastSuccessful' = migration.order
                    /\ newMigrationsList' = Tail(newMigrationsList)
                    /\ IF Tail(newMigrationsList) = <<>>
                       THEN /\ result' = conclude(hasError, migration.order, errorMessage)
                            /\ pc' = "idle"
                       ELSE /\ pc' = "query"
                            /\ UNCHANGED result
                    /\ UNCHANGED <<hasError, errorMessage, passOk>>
               ELSE /\ hasError' = TRUE
                    /\ errorMessage' = out.error
                    /\ passOk' = (passOk /\ out.error \notin DbErrors)
                    /\ pc' = "insertFailed"
                    /\ UNCHANGED <<passInserts, lastSuccessful, newMigrationsList, result>>
    /\ UNCHANGED <<migrationList, tableExists, inflightDelete, actualMigrations,
                   passExec, prev, listChange>>

\* lines 79-97: the catch block: await db.multiInsert(... successful: false ...); break
InsertFailed ==
    /\ UNCHANGED <<other, buildVars, allowMigrationContentsChanges>>
    /\ pc = "insertFailed"
    /\ ~inflightDelete
    /\ LET migration == Head(newMigrationsList)
           row == failedRow(migration, errorMessage)
           rest == afterCatch(newMigrationsList)
       IN \E out \in multiInsert(log, row) :
            /\ log' = out.rows
            /\ IF out.error = ""
               THEN /\ passInserts' = Append(passInserts, row)
                    /\ newMigrationsList' = rest
                    /\ IF rest = <<>>
                       THEN /\ result' = conclude(hasError, lastSuccessful, errorMessage)
                            /\ pc' = "idle"
                       ELSE /\ pc' = "query"
                            /\ UNCHANGED result
                    /\ UNCHANGED passOk
               ELSE /\ result' = Thrown(DbException(out.error))
                    /\ pc' = "idle"
                    /\ passOk' = (passOk /\ out.error \notin DbErrors)
                    /\ UNCHANGED <<passInserts, newMigrationsList>>
    /\ UNCHANGED <<migrationList, tableExists, inflightDelete, lastSuccessful, hasError,
                   errorMessage, actualMigrations, passExec, prev, listChange>>

\* migrate is an async function and nothing in the processor keeps a second call
\* from starting while a first one is suspended at an await: the event loop goes on
\* with the other call.
Switch ==
    /\ pc # "idle" \/ other.pc # "idle"
    /\ other' = Call
    /\ pc' = other.pc
    /\ lastSuccessful' = other.lastSuccessful
    /\ newMigrationsList' = other.newMigrationsList
    /\ hasError' = other.hasError
    /\ errorMessage' = other.errorMessage
    /\ result' = other.result
    /\ actualMigrations' = other.actualMigrations
    /\ passExec' = other.passExec
    /\ passInserts' = other.passInserts
    /\ passOk' = other.passOk
    /\ prev' = other.prev
    /\ UNCHANGED <<migrationList, allowMigrationContentsChanges, tableExists, log,
                   inflightDelete, listChange, buildVars>>

\* The methods of the processor are called directly (a test, a script), not by the
\* handler.
Direct(A) == A /\ UNCHANGED handlerVars

Next ==
    \/ \E list \in MigrationLists : Direct(NewProcessor(list, FALSE))
    \/ Direct(Initialize)
    \/ Direct(DeleteCompletes)
    \/ Direct(MigrateStart)
    \/ Direct(ExecQuery)
    \/ Direct(InsertSuccessful)
    \/ Direct(InsertFailed)

\* The calls of migrate follow each other: each is awaited before the next.
Spec == Init /\ [][Next]_vars

\* The calls of migrate on one processor may overlap.
NextOverlap ==
    \/ Direct(Initialize)
    \/ Direct(DeleteCompletes)
    \/ Direct(MigrateStart)
    \/ Direct(ExecQuery)
    \/ Direct(InsertSuccessful)
    \/ Direct(InsertFailed)
    \/ Direct(Switch)

SpecOverlap == Init /\ [][NextOverlap]_vars

\* The processors are made with or without the test-mode flag.
NextTestMode ==
    \/ \E list \in MigrationLists, allow \in BOOLEAN : Direct(NewProcessor(list, allow))
    \/ Direct(Initialize)
    \/ Direct(DeleteCompletes)
    \/ Direct(MigrateStart)
    \/ Direct(ExecQuery)
    \/ Direct(InsertSuccessful)
    \/ Direct(InsertFailed)

SpecTestMode == Init /\ [][NextTestMode]_vars

\* The process that runs migrate is stopped while the call waits at an await (the
\* machine goes down, the lambda times out): the call never returns and its locals
\* are gone; the table stays.  A DELETE still in flight has reached the server, which
\* then runs it, or has not.
Crash ==
    /\ UNCHANGED <<other, buildVars, allowMigrationContentsChanges>>
    /\ pc # "idle"
    /\ pc' = "idle"
    /\ result' = Interrupted(pc, lastSuccessful)
    /\ lastSuccessful' = Idle.lastSuccessful
    /\ newMigrationsList' = Idle.newMigrationsList
    /\ hasError' = Idle.hasError
    /\ errorMessage' = Idle.errorMessage
    /\ inflightDelete' = FALSE
    /\ IF inflightDelete THEN log' \in {log, DeleteFailed(log)} ELSE log' = log
    /\ UNCHANGED <<migrationList, tableExists, passHistory, listChange>>

\* The calls of migrate follow each other and may be cut short.
NextCrash ==
    \/ \E list \in MigrationLists : Direct(NewProcessor(list, FALSE))
    \/ Direct(Initialize)
    \/ Direct(DeleteCompletes)
    \/ Direct(MigrateStart)
    \/ Direct(ExecQuery)
    \/ Direct(InsertSuccessful)
    \/ Direct(InsertFailed)
    \/ Direct(Crash)

SpecCrash == Init /\ [][NextCrash]_vars

\* The lists of up to MaxOrder + 1 steps, with one statement text: the orders are any
\* increasing ones, as migrate of the list accepts them.
RECURSIVE LongListsBuiltBy(_)
LongListsBuiltBy(n) ==
    IF n = 0 THEN {<<>>}
    ELSE LET shorter == LongListsBuiltBy(n - 1)
         IN shorter \cup { internalMigrationList(l, [order |-> o, description |-> "M", query |-> "Q1"]).list :
                             l \in shorter, o \in 1..(MaxOrder + 1) }

LongLists == LongListsBuiltBy(MaxOrder + 1)

InitLongLists == Init /\ migrationList = <<>>

\* The processors are made with these lists.
NextLongLists ==
    \/ \E list \in LongLists : Direct(NewProcessor(list, FALSE))
    \/ Direct(Initialize)
    \/ Direct(DeleteCompletes)
    \/ Direct(MigrateStart)
    \/ Direct(ExecQuery)
    \/ Direct(InsertSuccessful)
    \/ Direct(InsertFailed)

SpecLongLists == InitLongLists /\ [][NextLongLists]_vars

(***************************************************************************)
(* Building a migration list                                               *)
(***************************************************************************)
processorVars ==
    <<migrationList, allowMigrationContentsChanges, tableExists, log, inflightDelete, pc, passLocals, result,
      passHistory, listChange, other>>

\* catalog = migrationList()
ListNew ==
    /\ catalog # <<>>
    /\ catalog' = <<>>
    /\ UNCHANGED <<catalogBefore, appendArg, appendOut, processorVars, handlerVars,
                   constructVars, arrayVars>>

\* catalog = catalog.migrate(migration): when migrate throws, catalog keeps its value.
ListMigrate(migration) ==
    LET out == internalMigrationList(catalog, migration)
    IN /\ catalogBefore' = catalog
       /\ appendArg' = migration
       /\ appendOut' = out
       /\ catalog' = out.list
       /\ UNCHANGED <<processorVars, handlerVars, constructVars, arrayVars>>

InitList == Init /\ migrationList = <<>>

NextList ==
    \/ ListNew
    \/ \E migration \in AnyMigration : ListMigrate(migration)

SpecList == InitList /\ [][NextList]_vars

\* The arrays the model holds at most, and the steps their migrate is given.
MaxArrays == 4
ArraySteps == [order : 0..(MaxOrder + 1), description : {"M"}, query : {"Q1"}]

\* returned = arrays[r].migrate(migration), for any list r made so far: the first is
\* migrationList().
ArrayMigrate(r, migration) ==
    LET out == migrate(arrays, r, migration)
    IN /\ Len(out.heap) <= MaxArrays
       /\ arrays' = out.heap
       /\ receiver' = r
       /\ returned' = out.returned
       /\ appendArg' = migration
       /\ UNCHANGED <<catalog, catalogBefore, appendOut, processorVars, handlerVars,
                      constructVars>>

InitArrays == Init /\ migrationList = <<>>

NextArrays == \E r \in DOMAIN arrays, migration \in ArraySteps : ArrayMigrate(r, migration)

SpecArrays == InitArrays /\ [][NextArrays]_vars

(***************************************************************************)
(* Synthesizing the stack                                                  *)
(***************************************************************************)
\* new TSApiConstruct(...) with `file` the contents of the migration lambda's source:
\* the custom resource gets Checksum: checksum.toString().  The deployment sends the
\* resource an Update event, and so runs the migration, when the property has changed.
Synthesize(file) ==
    /\ previousSource' = handlerSource
    /\ previousChecksum' = Checksum
    /\ handlerSource' = file
    /\ Checksum' = checksum(file)
    /\ UNCHANGED <<processorVars, listVars, handlerVars, arrayVars>>

NextConstruct == \E file \in SourceFiles : Synthesize(file)

InitConstruct == Init /\ migrationList = <<>>

SpecConstruct == InitConstruct /\ [][NextConstruct]_vars

(***************************************************************************)
(* migrationHandler: the state machine                                     *)
(***************************************************************************)
\* What of the processor and the store the handler's own steps leave alone.
passVars ==
    <<migrationList, allowMigrationContentsChanges, tableExists, pc, passLocals, result, passHistory, listChange, other>>

\* Mutant of Finally: client.end() at the end of the try block, not in a finally: it
\* is not called when initialize or migrate has thrown.
FinallyOnReturnOnly(called, dueResponse, dueRaised) ==
    /\ client' = IF dueRaised = NoError THEN "ended" ELSE client
    /\ calls' = IF dueRaised = NoError THEN Append(called, "end") ELSE called
    /\ hpc' = "done"
    /\ response' = dueResponse
    /\ raised' = dueRaised
    /\ \E e \in {""} \cup EndErrors :
          unhandled' = IF e = "" \/ dueRaised # NoError THEN unhandled ELSE unhandled \cup {e}
    /\ inflightDelete' = FALSE
    /\ IF inflightDelete THEN log' \in {log, DeleteFailed(log)} ELSE log' = log
    /\ UNCHANGED <<event, passVars, buildVars>>

\* finally { client.end() }, then the return or the catch block that is due, with
\* `called` what the invocation has called so far.  client.end() returns a promise
\* and the handler does not await it: when the closing fails, the promise rejects
\* and no code of the handler sees it.  A DELETE of migrate still in flight when
\* the client is ended has reached the server, which then runs it, or has not.
Finally(called, dueResponse, dueRaised) ==
    /\ client' = "ended"
    /\ calls' = Append(called, "end")
    /\ hpc' = "done"
    /\ response' = dueResponse
    /\ raised' = dueRaised
    /\ \E e \in {""} \cup EndErrors :
          unhandled' = IF e = "" THEN unhandled ELSE unhandled \cup {e}
    /\ inflightDelete' = FALSE
    /\ IF inflightDelete THEN log' \in {log, DeleteFailed(log)} ELSE log' = log
    /\ UNCHANGED <<event, passVars, buildVars>>

\* fn(event), lines 68-72, up to the await of connectPostgresDb
HandlerInvoke(ev) ==
    /\ hpc = "idle"
    /\ pc = "idle"
    /\ event' = ev
    /\ IF ev.RequestType = "Delete"
       THEN /\ response' = deleteResponse(ev)
            /\ hpc' = "done"
       ELSE /\ response' = NoResponse
            /\ hpc' = "connect"
    /\ UNCHANGED <<client, calls, raised, unhandled, processorVars, buildVars>>

\* line 72: await connectPostgresDb(); when it throws, the catch block of line 84
HandlerConnect ==
    /\ hpc = "connect"
    /\ calls' = Append(calls, "connect")
    /\ \E e \in {""} \cup ConnectErrors :
          IF e = ""
          THEN /\ client' = "open"
               /\ hpc' = IF callsInitialize(event) THEN "initialize" ELSE "migrate"
               /\ UNCHANGED <<response, raised>>
          ELSE /\ raised' = DbException(e)
               /\ response' = exceptionResponse(DbException(e), event)
               /\ hpc' = "done"
               /\ UNCHANGED client
    /\ UNCHANGED <<event, unhandled, processorVars, buildVars>>

\* lines 76-78: await migrationProcessor.initialize(db)
HandlerInitialize ==
    /\ hpc = "initialize"
    /\ \/ /\ Initialize
          /\ calls' = Append(calls, "initialize")
          /\ hpc' = "migrate"
          /\ UNCHANGED <<event, response, client, raised, unhandled>>
       \/ \E e \in DbErrors :
             Finally(Append(calls, "initialize"),
                     exceptionResponse(DbException(e), event), DbException(e))

\* lines 80 and 56: migrationProcessor.migrate(db) is called
HandlerMigrate ==
    /\ hpc = "migrate"
    /\ MigrateStart
    /\ calls' = Append(calls, "migrate")
    /\ hpc' = "migrating"
    /\ UNCHANGED <<event, response, client, raised, unhandled>>

\* A step of the migrate call the handler awaits.
HandlerRuns(A) == hpc = "migrating" /\ A /\ UNCHANGED handlerVars

\* lines 56-62 and 80-89: migrate has returned or thrown.  The code goes on without
\* an await from the end of migrate to the return of the response: the step is kept
\* apart from the last step of migrate, and nothing but the server's run of the
\* DELETE can come between the two.
HandlerRespond ==
    /\ hpc = "migrating"
    /\ pc = "idle"
    /\ IF result.kind = "Thrown"
       THEN Finally(calls, exceptionResponse(result.error, event), result.error)
       ELSE Finally(calls, migrationUpdate(result, resourceId(event), event), NoError)

\* The response is with the caller: nothing of the invocation is left (the event,
\* the client, the response and what migrate worked with are locals of the calls).
HandlerReturn ==
    /\ hpc = "done"
    /\ hpc' = "idle"
    /\ event' = NoEvent
    /\ response' = NoResponse
    /\ client' = "none"
    /\ calls' = <<>>
    /\ raised' = NoError
    /\ unhandled' = {}
    /\ lastSuccessful' = Idle.lastSuccessful
    /\ newMigrationsList' = Idle.newMigrationsList
    /\ hasError' = Idle.hasError
    /\ errorMessage' = Idle.errorMessage
    /\ result' = Idle.result
    /\ actualMigrations' = Idle.actualMigrations
    /\ passExec' = Idle.passExec
    /\ passInserts' = Idle.passInserts
    /\ passOk' = Idle.passOk
    /\ prev' = Idle.prev
    /\ UNCHANGED <<migrationList, allowMigrationContentsChanges, tableExists, log,
                   inflightDelete, pc, listChange, other, buildVars>>

\* Between two invocations a deployment brings a handler with another list.
HandlerDeploy(list) == hpc = "idle" /\ NewProcessor(list, FALSE) /\ UNCHANGED handlerVars

NextHandler ==
    \/ \E ev \in Events : HandlerInvoke(ev)
    \/ HandlerConnect
    \/ HandlerInitialize
    \/ HandlerMigrate
    \/ HandlerRuns(DeleteCompletes)
    \/ HandlerRuns(ExecQuery)
    \/ HandlerRuns(InsertSuccessful)
    \/ HandlerRuns(InsertFailed)
    \/ HandlerRespond
    \/ HandlerReturn
    \/ \E list \in MigrationLists : HandlerDeploy(list)

SpecHandler == Init /\ [][NextHandler]_vars

(***************************************************************************)
(* The claims                                                              *)
(***************************************************************************)
\* A migrate call has ended and the list is still the one it ran with.
PassOver == pc = "idle" /\ result # NoResult /\ listChange = "unchanged"

IntegrityError(r) == r.kind = "Thrown" /\ r.error.kind \in {NotFound, Modified}

ListOrders == [i \in DOMAIN migrationList |-> migrationList[i].order]
ExecOrders == [i \in DOMAIN passExec |-> passExec[i].order]
SuccessfulRows(rows) == SelectSeq(rows, LAMBDA r : r.successful)
IsPrefixOf(s, t) == Len(s) <= Len(t) /\ SubSeq(t, 1, Len(s)) = s
LastOrder == IF migrationList = <<>> THEN -1 ELSE migrationList[Len(migrationList)].order

\* The successful row i of the log has no step of its order in the list.
Missing(i) ==
    /\ log[i].successful
    /\ \A k \in DOMAIN migrationList : migrationList[k].order # log[i].creationOrder

\* The successful row i of the log has a step of its order in the list, with another text.
Edited(i) ==
    /\ log[i].successful
    /\ \E k \in DOMAIN migrationList :
         /\ migrationList[k].order = log[i].creationOrder
         /\ migrationList[k].query # log[i].queryExecuted

\* Row i is the successful row of lowest order that is missing or edited.
FirstOffence(i) ==
    /\ Missing(i) \/ Edited(i)
    /\ \A j \in DOMAIN log :
         (log[j].successful /\ log[j].creationOrder < log[i].creationOrder)
            => ~(Missing(j) \/ Edited(j))

\* C1 (idempotence): a pass that follows a pass that returned Success with
\* lastSuccessful = L, the list unchanged in between, executes no statement, inserts
\* no row and returns Success with lastSuccessful = L.
C1_Idempotence ==
    (prev.result.kind = "Success" /\ prev.change = "unchanged")
        => /\ pc = "idle"
           /\ passExec = <<>>
           /\ passInserts = <<>>
           /\ result = MigrationResultSuccess(prev.result.lastSuccessful)

C1_Witness ==
    /\ prev.result.kind = "Success" /\ prev.change = "unchanged"
    /\ prev.result.lastSuccessful = MaxOrder
    /\ Len(SuccessfulRows(log)) >= 2
    /\ result.kind = "Success"

\* C2 (ascending application): after a pass on an initialized, empty log table in
\* which no database operation fails, the table holds exactly one row per step of the
\* list, in the order of the list, each successful, with the step's order and
\* statement, and the pass returned Success with the order of the last step (-1 for
\* the empty list).
C2_AscendingApplication ==
    (/\ PassOver
     /\ result # Thrown(DbException(UndefinedTable))
     /\ actualMigrations = <<>>
     /\ passOk)
        => /\ log = [i \in DOMAIN migrationList |->
                        Row(migrationList[i].order, migrationList[i].description,
                            migrationList[i].query, TRUE, "")]
           /\ result = MigrationResultSuccess(LastOrder)

C2_Witness ==
    /\ PassOver /\ actualMigrations = <<>> /\ passOk
    /\ result.kind = "Success"
    /\ Len(migrationList) >= 2
    /\ Len(log) = Len(migrationList)

\* C3 (fail-fast): once the statement of a step has failed in a pass, the pass
\* executes no further statement and logs no row for any later step.
C3_FailFast ==
    \A i \in DOMAIN passExec :
        ~passExec[i].ok =>
            /\ i = Len(passExec)
            /\ \A j \in DOMAIN passInserts :
                  passInserts[j].creationOrder <= passExec[i].order

C3_Witness ==
    /\ PassOver
    /\ result.kind = "Failure"
    /\ passExec # <<>>
    /\ ~passExec[Len(passExec)].ok
    /\ passExec[Len(passExec)].order < LastOrder

\* C4 (retry after fix): when a pass failed at step k and the next pass runs with a
\* list in which only the statement of k differs, the next pass raises no integrity
\* error, executes the steps from k on in ascending order and nothing else, and, when
\* no database operation fails, executes all of them and returns Success with the
\* order of the last step.
C4_RetryAfterFix ==
    (prev.change = "failedStepCorrected" /\ listChange = "unchanged")
        => LET due == SelectSeq(ListOrders, LAMBDA o : o >= prev.failed) IN
           /\ ~IntegrityError(result)
           /\ IsPrefixOf(ExecOrders, due)
           /\ (pc = "idle" /\ passOk)
                 => /\ ExecOrders = due
                    /\ result = MigrationResultSuccess(LastOrder)

C4_Witness ==
    /\ prev.change = "failedStepCorrected" /\ PassOver /\ passOk
    /\ prev.failed = 1 /\ prev.result.kind = "Failure"
    /\ \E j \in DOMAIN actualMigrations :
          ~actualMigrations[j].successful /\ actualMigrations[j].creationOrder = 1
    /\ ExecOrders = <<1, 2>>
    /\ result = MigrationResultSuccess(2)

\* C5 as claimed (removed step): whenever the log holds a successful row of order o
\* and the list has no step of order o, migrate raises the "not found in your list"
\* error naming o.
C5_Original ==
    PassOver =>
        \A i \in DOMAIN log :
            Missing(i) => /\ result.kind = "Thrown"
                          /\ result.error.kind = NotFound
                          /\ result.error.order = log[i].creationOrder

\* C5 as amended: whenever the log holds a successful row of order o and the list has
\* no step of order o, migrate raises an integrity error; it is the "not found in
\* your list" error naming o (and o's logged statement) when o is the lowest order of
\* a successful row that is missing from the list or edited in it.
C5_RemovedStep ==
    PassOver =>
        \A i \in DOMAIN log :
            Missing(i) =>
                /\ IntegrityError(result)
                /\ FirstOffence(i) =>
                      result = Thrown([kind |-> NotFound, order |-> log[i].creationOrder,
                                       query |-> log[i].queryExecuted])

C5_Witness ==
    /\ PassOver
    /\ \E i, j \in DOMAIN log :
          /\ Missing(i) /\ FirstOffence(i)
          /\ log[j].successful /\ log[j].creationOrder < log[i].creationOrder
    /\ result.error.kind = NotFound

\* C6 as claimed (edited step): whenever the log holds a successful row of order o
\* with statement Q and the list's step of order o has another statement, migrate
\* raises the "query text modified" error.
C6_Original ==
    PassOver =>
        \A i \in DOMAIN log :
            Edited(i) => /\ result.kind = "Thrown"
                         /\ result.error.kind = Modified

\* C6 as amended: whenever the log holds a successful row of order o with statement Q
\* and the list's step of order o has another statement, migrate raises an integrity
\* error; it is the "query text modified" error naming o and Q when o is the lowest
\* order of a successful row that is missing from the list or edited in it.
C6_EditedStep ==
    PassOver =>
        \A i \in DOMAIN log :
            Edited(i) =>
                /\ IntegrityError(result)
                /\ FirstOffence(i) =>
                      result = Thrown([kind |-> Modified, order |-> log[i].creationOrder,
                                       query |-> log[i].queryExecuted])

C6_Witness ==
    /\ PassOver
    /\ \E i, j \in DOMAIN log :
          /\ Edited(i) /\ FirstOffence(i)
          /\ log[j].successful /\ log[j].creationOrder < log[i].creationOrder
    /\ result.error.kind = Modified

\* C7 (integrity abort without side effect): when migrate has raised a removed-step
\* or edited-step error, the pass has executed no statement, inserted no row and
\* issued no DELETE, and the table holds the rows the pass read.
C7_AbortFrame ==
    (pc = "idle" /\ IntegrityError(result))
        => /\ passExec = <<>>
           /\ passInserts = <<>>
           /\ ~inflightDelete
           /\ select(log) = actualMigrations

C7_Witness ==
    /\ pc = "idle" /\ IntegrityError(result)
    /\ \E i \in DOMAIN log : ~log[i].successful
    /\ \E i \in DOMAIN log : log[i].successful

\* C8 (prefix invariant): after any pass that returned a result, the orders with a
\* successful row are a prefix of the order sequence of the list the pass ran with:
\* no step without a successful row has a lower order than a step with one.
C8_PrefixInvariant ==
    (PassOver /\ result.kind \in {"Success", "Failure"})
        => LET done == { log[i].creationOrder : i \in { k \in DOMAIN log : log[k].successful } }
           IN \E n \in 0..Len(migrationList) :
                 done = { migrationList[i].order : i \in 1..n }

\* C9 (successful rows are permanent): no step removes or changes a successful row:
\* the successful rows of the table before a step are the first successful rows of
\* the table after it.
C9_SuccessfulPermanent ==
    [][IsPrefixOf(SuccessfulRows(log), SuccessfulRows(log'))]_vars

C9_Witness ==
    /\ prev.failed > 0
    /\ pc = "query" /\ ~inflightDelete
    /\ log # <<>>
    /\ \A i \in DOMAIN log : log[i].successful

\* C10: in every state, also when calls of migrate overlap, the table holds at most
\* one row with successful = true for each creationOrder.
C10_OneSuccessfulPerOrder ==
    \A i, j \in DOMAIN log :
        (log[i].successful /\ log[j].successful
            /\ log[i].creationOrder = log[j].creationOrder) => i = j

C10_Witness ==
    /\ pc = "idle" /\ other.pc = "idle"
    /\ result.kind = "Thrown" /\ result.error.kind = DuplicateKey
    /\ other.result.kind = "Success"
    /\ Len(SuccessfulRows(log)) = 2

\* The highest creationOrder of a successful row of the table (-1: there is none).
HighestSuccessful ==
    LET done == { log[i].creationOrder : i \in { k \in DOMAIN log : log[k].successful } }
    IN IF done = {} THEN -1 ELSE CHOOSE o \in done : \A q \in done : q <= o

\* C11 (exactness of lastSuccessful): when migrate has returned Success or Failure and
\* the table holds a successful row, the lastSuccessful of the result is the highest
\* creationOrder of a successful row; it is never the order of a step for which the
\* pass logged a failure.
C11_ExactLastSuccessful ==
    (pc = "idle" /\ result.kind \in {"Success", "Failure"} /\ SuccessfulRows(log) # <<>>)
        => /\ result.lastSuccessful = HighestSuccessful
           /\ \A j \in DOMAIN passInserts :
                 ~passInserts[j].successful
                    => result.lastSuccessful # passInserts[j].creationOrder

C11_Witness ==
    /\ PassOver
    /\ result.kind = "Failure" /\ result.lastSuccessful = 1
    /\ actualMigrations # <<>>
    /\ \E j \in DOMAIN passInserts :
          ~passInserts[j].successful /\ passInserts[j].creationOrder = 2
    /\ SuccessfulRows(log) # <<>>

\* C12 (a step's failure never escapes as an exception): a pass that got as far as
\* executing the statement of a pending step (the history validation has passed) ends
\* with a MigrationResult, whichever of the statement and the inserts fail: Failure
\* with the error text when a step failed, Success otherwise.
C12_StepFailureContained ==
    (pc = "idle" /\ passExec # <<>>)
        => /\ result.kind \in {"Success", "Failure"}
           /\ hasError => result = MigrationResultFailure(lastSuccessful, errorMessage)

\* C13 (order validation of the list): a call of migrate with an order <= 0 throws
\* "Migration order number must be greater than zero"; with an order > 0 that is not
\* greater than the order of the last step of a non-empty list it throws "Migration
\* orders must grow"; every other call returns the list with the step appended.
C13_OrderValidation ==
    appendArg # NoMigration =>
        LET n == Len(catalogBefore) IN
        IF appendArg.order <= 0
        THEN appendOut.error = "Migration order number must be greater than zero"
        ELSE IF n > 0 /\ appendArg.order <= catalogBefore[n].order
        THEN appendOut.error = "Migration orders must grow"
        ELSE /\ appendOut.error = ""
             /\ appendOut.list = Append(catalogBefore, appendArg)

C13_Witness ==
    /\ Len(catalogBefore) = 2
    /\ appendArg.order = catalogBefore[2].order
    /\ appendOut.error = "Migration orders must grow"

\* A handler invocation has ended: its response is returned.
Responded == hpc = "done"

\* The calls of initialize and migrate the invocation made, in order.
ProcessorCalls == SelectSeq(calls, LAMBDA c : c \in {"initialize", "migrate"})

\* The invocation got its client from connectPostgresDb.
Connected == \E i \in DOMAIN calls : calls[i] = "connect" /\ client # "none"

\* initialize threw.
InitializeFailed ==
    /\ ProcessorCalls = <<"initialize">>
    /\ raised \in { DbException(e) : e \in DbErrors }

\* C14 as claimed (call sequence): for a Create event the handler calls initialize
\* once and then migrate once, and only initialize when initialize fails; for an
\* Update event it calls migrate once and never initialize.
C14_Original ==
    Responded =>
        /\ event.RequestType = "Create"
              => ProcessorCalls = <<"initialize", "migrate">> \/ InitializeFailed
        /\ event.RequestType = "Update" => ProcessorCalls = <<"migrate">>

\* C14 as amended: what C14 says holds for the events for which connectPostgresDb
\* returned a client; when connectPostgresDb throws, the handler calls neither
\* initialize nor migrate.
C14_CallSequence ==
    Responded =>
        IF Connected
        THEN /\ event.RequestType = "Create"
                   => ProcessorCalls = <<"initialize", "migrate">> \/ InitializeFailed
             /\ event.RequestType = "Update" => ProcessorCalls = <<"migrate">>
        ELSE ProcessorCalls = <<>>

C14_Witness ==
    /\ Responded /\ Connected
    /\ event.RequestType = "Create"
    /\ calls = <<"connect", "initialize", "migrate", "end">>
    /\ response.Status = "SUCCESS"
    /\ log # <<>>

\* C15 (Delete is a no-op success): an invocation with a Delete event returns at once
\* a SUCCESS response with the PhysicalResourceId of the event; it asks for no
\* client, calls neither initialize nor migrate, and leaves the table and its rows
\* as they are.
C15_DeleteNoOp ==
    [][(hpc = "idle" /\ event'.RequestType = "Delete")
          => /\ hpc' = "done"
             /\ response'.Status = "SUCCESS"
             /\ response'.PhysicalResourceId = event'.PhysicalResourceId
             /\ calls' = <<>>
             /\ client' = "none"
             /\ UNCHANGED <<tableExists, log, inflightDelete, pc, result>>]_vars

C15_Witness ==
    /\ Responded
    /\ event.RequestType = "Delete"
    /\ response.Status = "SUCCESS"
    /\ \E i \in DOMAIN log : ~log[i].successful

\* C16 (exception boundary): every exception raised while connecting, initializing,
\* migrating or closing the connection is caught by the handler, which returns a
\* FAILED response whose text holds the message of the exception.
C16_ExceptionBoundary ==
    Responded =>
        \A error \in {raised} \cup { DbException(e) : e \in unhandled } :
            error # NoError
                => /\ response.Status = "FAILED"
                   /\ response.Data.message = error

\* C17 as claimed (response content): for a Create or Update event the response is
\* SUCCESS exactly when migrate returned a successful result, its text always names
\* the last successful order, and a FAILED response carries the error message.
C17_Original ==
    (Responded /\ event.RequestType \in {"Create", "Update"})
        => /\ response.Status = "SUCCESS" <=> result.kind = "Success"
           /\ Len(response.Data.orders) = 1
           /\ result.kind \in {"Success", "Failure"}
                 => response.Data.orders = <<result.lastSuccessful>>
           /\ response.Status = "FAILED" => response.Data.message # NoError

\* C17 as amended: for a Create or Update event the response is SUCCESS exactly when
\* migrate returned a successful result; when migrate returned a result, the text
\* names its lastSuccessful and, for a Failure, carries its errorMessage; when
\* connecting, initialize or migrate threw, the response is FAILED, its text carries
\* the message of the exception and names no order.
C17_ResponseContent ==
    (Responded /\ event.RequestType \in {"Create", "Update"})
        => /\ response.Status \in {"SUCCESS", "FAILED"}
           /\ response.Status = "SUCCESS" <=> result.kind = "Success"
           /\ result.kind = "Success"
                 => response.Data =
                       ResultText("Last migration: ", NoError, <<result.lastSuccessful>>)
           /\ result.kind = "Failure"
                 => response.Data =
                       ResultText("Migration error: , last successful: ",
                                  DbException(result.errorMessage),
                                  <<result.lastSuccessful>>)
           /\ result.kind \notin {"Success", "Failure"}
                 => /\ raised # NoError
                    /\ response.Data = ResultText("Migration exception: ", raised, <<>>)

C17_Witness ==
    /\ Responded
    /\ event.RequestType = "Update"
    /\ result.kind = "Failure" /\ result.lastSuccessful = 1
    /\ response.Status = "FAILED"
    /\ response.Data.orders = <<1>>

\* C18 (stable identifier): the PhysicalResourceId of the response is
\* custom-<RequestId> for a Create event and the PhysicalResourceId of the event for
\* an Update or Delete event, whether migrate returned Success, returned Failure or
\* an exception was caught; StackId, RequestId and LogicalResourceId are the event's.
C18_StableIdentifier ==
    Responded =>
        /\ response.PhysicalResourceId =
              IF event.RequestType = "Create" THEN CustomId(event.RequestId)
              ELSE event.PhysicalResourceId
        /\ response.StackId = event.StackId
        /\ response.RequestId = event.RequestId
        /\ response.LogicalResourceId = event.LogicalResourceId

C18_Witness ==
    /\ Responded
    /\ event.RequestType = "Create"
    /\ IntegrityError(result)
    /\ response.Status = "FAILED"
    /\ response.PhysicalResourceId = CustomId(event.RequestId)

\* The orders of the steps above the highest successful order the pass read.
DueOrders ==
    LET done == { actualMigrations[i].creationOrder :
                    i \in { k \in DOMAIN actualMigrations : actualMigrations[k].successful } }
    IN SelectSeq(ListOrders, LAMBDA o : \A q \in done : o > q)

\* C19 as claimed (test mode): with allowMigrationContentsChanges = true, a pass over
\* a table that holds a successful row whose statement differs from the list's raises
\* no integrity error and goes on to the pending steps; without the flag the pass
\* raises the "query text modified" error.
C19_Original ==
    PassOver =>
        \A i \in DOMAIN log :
            Edited(i) =>
                IF allowMigrationContentsChanges
                THEN ~IntegrityError(result)
                ELSE result.kind = "Thrown" /\ result.error.kind = Modified

\* C19 as amended: with the flag, such a pass never raises the "query text modified"
\* error and, when no successful row is missing from the list, raises no integrity
\* error and executes the pending steps in order (all of them, returning Success,
\* when no database operation fails); without the flag the pass raises an integrity
\* error, which is the "query text modified" error when the edited row is the lowest
\* successful row that is missing or edited.
C19_TestMode ==
    PassOver =>
        \A i \in DOMAIN log :
            Edited(i) =>
                IF allowMigrationContentsChanges
                THEN /\ result.kind = "Thrown" => result.error.kind # Modified
                     /\ (\A j \in DOMAIN log : ~Missing(j))
                           => /\ ~IntegrityError(result)
                              /\ IsPrefixOf(ExecOrders, DueOrders)
                              /\ passOk => /\ ExecOrders = DueOrders
                                           /\ result.kind = "Success"
                ELSE /\ IntegrityError(result)
                     /\ FirstOffence(i) => result.error.kind = Modified

C19_Witness ==
    /\ PassOver
    /\ allowMigrationContentsChanges
    /\ \E i \in DOMAIN log : Edited(i)
    /\ passExec # <<>>
    /\ result.kind = "Success"

\* C20 (initialize is idempotent): a call of initialize, on a store with or without
\* the log table, leaves the table existing and every row of it as it was; on a
\* store where the table exists it changes nothing, so that any number of calls
\* leave what one call leaves; on a fresh store the table it leaves is empty.
C20_InitializeIdempotent ==
    [][(hpc = "initialize" /\ hpc' = "migrate")
          => /\ tableExists'
             /\ log' = log
             /\ tableExists => UNCHANGED <<tableExists, log, inflightDelete>>
             /\ ~tableExists => log' = <<>>]_vars

C20_Witness ==
    /\ hpc = "migrate"
    /\ event.RequestType = "Create"
    /\ calls = <<"connect", "initialize">>
    /\ \E i \in DOMAIN log : log[i].successful
    /\ \E i \in DOMAIN log : ~log[i].successful

\* C21: two migration handler source files with different bytes give the custom
\* resource different Checksum properties (so that a changed lambda re-triggers
\* the migration).
C21_DifferentChecksums ==
    handlerSource # previousSource => Checksum # previousChecksum

\* The highest order of a successful row the select of the pass returned (-1: none).
HighestLogged ==
    LET done == { actualMigrations[i].creationOrder :
                    i \in { k \in DOMAIN actualMigrations : actualMigrations[k].successful } }
    IN IF done = {} THEN -1 ELSE CHOOSE o \in done : \A q \in done : q <= o

\* The orders of the steps of the list above that order, as the list has them.
PendingOrders ==
    LET above == { i \in DOMAIN migrationList : migrationList[i].order > HighestLogged }
    IN [j \in 1..Cardinality(above) |->
          migrationList[Len(migrationList) - Cardinality(above) + j].order]

\* The running or last pass got through the validation of the history.
Validated ==
    /\ listChange = "unchanged"
    /\ pc # "idle" \/ result.kind \in {"Success", "Failure"}
          \/ (result.kind = "Thrown" /\ passExec # <<>>)

\* C22 (pending-step selection): in a pass that passes the validation, the statements
\* executed are those of the steps whose order is above the highest successfully
\* logged order (all steps when there is none), in ascending order, one at a time, up
\* to and including the first step that fails; no step at or below that order is
\* executed.
C22_PendingSelection ==
    Validated =>
        /\ IsPrefixOf(ExecOrders, PendingOrders)
        /\ \A i \in DOMAIN ExecOrders :
              /\ ExecOrders[i] > HighestLogged
              /\ i > 1 => ExecOrders[i - 1] < ExecOrders[i]
              /\ i < Len(ExecOrders) =>
                    /\ passExec[i].ok
                    /\ passInserts[i] = successRow(migrationList[Len(migrationList) - Len(PendingOrders) + i])
        /\ (pc = "idle" /\ result.kind = "Success") => ExecOrders = PendingOrders
        /\ (pc = "idle" /\ result.kind # "Success") =>
              /\ ExecOrders # <<>>
              /\ hasError
        /\ pc = "query" => Len(passInserts) = Len(passExec)

C22_Witness ==
    /\ Validated /\ pc = "idle"
    /\ HighestLogged = 1
    /\ Len(migrationList) = 2
    /\ ExecOrders = <<2>>
    /\ result.kind = "Success"

FailedRows(rows) == SelectSeq(rows, LAMBDA r : ~r.successful)

\* C24 (recording of a failed step): when migrate has returned Failure because step k
\* failed, the table holds exactly one failed row, with k's order and statement and
\* the errorMessage of the Failure as its message, and the successful rows are those
\* of the steps of the list below k.
C24_FailedStepRecorded ==
    (PassOver /\ result.kind = "Failure")
        => /\ passExec # <<>>
           /\ LET k == passExec[Len(passExec)].order
                  step == find(migrationList, k)
                  below == SelectSeq(migrationList, LAMBDA m : m.order < k)
              IN /\ FailedRows(log) = <<failedRow(step, result.errorMessage)>>
                 /\ SuccessfulRows(log) = [i \in DOMAIN below |-> successRow(below[i])]

\* A step in which a call of migrate reads the table (the table exists).
ReadsLog == pc = "idle" /\ ~inflightDelete /\ tableExists /\ migrationList' = migrationList

\* A step that writes for a pass: the DELETE runs, a statement runs, a row is inserted.
WritesInPass ==
    \/ inflightDelete /\ ~inflightDelete'
    \/ pc # "idle" /\ (passExec' # passExec \/ log' # log)

\* C25 (read before write within a pass): a pass reads the table once, before any
\* of its writes (the DELETE, the statements, the inserts): the step that reads
\* writes nothing and gets the rows the table holds, no later step of the pass reads
\* again, and the validation and the selection of the pending steps are made from
\* the rows read.
C25_ReadBeforeWrite ==
    [][/\ ReadsLog =>
            /\ log' = log
            /\ passExec' = <<>> /\ passInserts' = <<>>
            /\ actualMigrations' = OrderByCreationOrder(log)
            /\ IntegrityError(result') <=>
                  \E i \in DOMAIN actualMigrations' :
                     /\ actualMigrations'[i].successful
                     /\ \/ find(migrationList, actualMigrations'[i].creationOrder) = NoMigration
                        \/ find(migrationList, actualMigrations'[i].creationOrder).query
                              # actualMigrations'[i].queryExecuted
            /\ ~IntegrityError(result') =>
                  /\ inflightDelete'
                  /\ newMigrationsList' =
                        SelectSeq(migrationList, LAMBDA m : m.order > HighestLogged')
       /\ WritesInPass => actualMigrations' = actualMigrations]_vars

\* A pass has read failed rows and has since written: they are purged, a statement ran.
C25_Witness ==
    /\ pc # "idle"
    /\ FailedRows(actualMigrations) # <<>>
    /\ FailedRows(log) = <<>>
    /\ passExec # <<>>
    /\ Len(SuccessfulRows(actualMigrations)) >= 1

\* C26 (crash resumption): when a pass was stopped between two steps, the row of
\* step k written and step k+1 not started, the next pass with the same list, if no
\* database operation fails in it, executes the steps above k and no other, each
\* once, and returns Success with the order of the last step.
C26_CrashResumption ==
    (/\ PassOver
     /\ prev.result.kind = "Interrupted"
     /\ prev.result.error.kind = "query"
     /\ prev.result.lastSuccessful >= 1
     /\ prev.change = "unchanged"
     /\ result.kind # "Interrupted"
     /\ passOk)
        => /\ result = MigrationResultSuccess(LastOrder)
           /\ ExecOrders = [i \in DOMAIN PendingOrders |-> PendingOrders[i]]
           /\ HighestLogged = prev.result.lastSuccessful
           /\ \A i \in DOMAIN passExec :
                 passExec[i].ok /\ passExec[i].order > prev.result.lastSuccessful
           /\ \A i \in DOMAIN migrationList :
                 migrationList[i].order > prev.result.lastSuccessful
                    => \E j \in DOMAIN passExec : passExec[j].order = migrationList[i].order

\* The pass before was stopped after it had logged step 1; this one applied step 2.
C26_Witness ==
    /\ PassOver
    /\ prev.result.kind = "Interrupted" /\ prev.result.error.kind = "query"
    /\ prev.result.lastSuccessful = 1
    /\ prev.change = "unchanged"
    /\ result.kind = "Success"
    /\ ExecOrders = <<2>>

\* C27 (catalog invariant): a list built from migrationList() by calls of migrate,
\* accepted or rejected, holds steps of positive, strictly increasing (so distinct)
\* orders, and has one step per accepted call: an accepted call makes it one step
\* longer, a rejected call leaves its length, and migrationList() is empty.
C27_CatalogInvariant ==
    [][/\ \A i \in DOMAIN catalog' :
             /\ catalog'[i].order > 0
             /\ \A j \in DOMAIN catalog' : i < j => catalog'[i].order < catalog'[j].order
       /\ IF appendOut' = appendOut /\ catalog' = <<>>
          THEN Len(catalog') = 0
          ELSE Len(catalog') = Len(catalog) + (IF appendOut'.error = "" THEN 1 ELSE 0)]_vars

\* A list of MaxOrder + 1 steps on which a call of migrate has just been rejected.
C27_Witness ==
    /\ Len(catalog) = MaxOrder + 1
    /\ appendOut.error # ""
    /\ catalogBefore = catalog

\* C28 (at-most-once application): with a list that is unchanged or has only got
\* steps appended since the last pass, the next pass does not take up again a step
\* whose statement the last pass ran with success, the one whose successful row it
\* could not write included.  (The first step a pass takes up is executed, so this
\* follows from: each statement is executed successfully at most once across the
\* passes.)
C28_AtMostOnce ==
    [][(/\ pc = "idle" /\ pc' = "query"
        /\ listChange \in {"unchanged", "appended"})
          => \A i \in DOMAIN newMigrationsList' :
                newMigrationsList'[i].order \notin Applied]_vars

\* C29 (append does not modify its receiver): a call of a list's migrate changes no
\* array there is, the receiver included; when it is accepted it returns a new array,
\* that holds the receiver's steps followed by the new step, and when it is rejected
\* it makes none.  (So two lists derived from one base do not affect each other.)
C29_ReceiverUnchanged ==
    [][/\ \A r \in DOMAIN arrays : r \in DOMAIN arrays' /\ arrays'[r] = arrays[r]
       /\ IF returned' # 0
          THEN /\ returned' \notin DOMAIN arrays
               /\ DOMAIN arrays' = DOMAIN arrays \cup {returned'}
               /\ arrays'[returned'] = Append(arrays[receiver'], appendArg')
          ELSE arrays' = arrays]_vars

\* Two lists were derived from migrationList() by different steps, and a call on it
\* was rejected after that.
C29_Witness ==
    /\ Len(arrays) >= 3
    /\ arrays[1] = <<>>
    /\ Len(arrays[2]) = 1 /\ Len(arrays[3]) = 1
    /\ arrays[2] # arrays[3]
    /\ receiver = 1 /\ returned = 0 /\ appendArg.order = 0

\* The calls of client.end() the invocation made.
EndCalls == Len(SelectSeq(calls, LAMBDA c : c = "end"))

====
